---- MODULE Spec2Model ----
(***************************************************************************)
(* A model of distribd: the Raft-style consensus node (distribd/raft.py),  *)
(* the registry upload handlers (distribd/registry.py) and the content     *)
(* mirror (distribd/mirror.py).                                            *)
(***************************************************************************)
EXTENDS Integers, Sequences, FiniteSets, Bags, TLC

(***************************************************************************)
(* Bounds of the model and constants of the program.                       *)
(***************************************************************************)
NumNodes == 3
MaxRounds == 3
MaxLog == 1
MaxValue == 2
MaxHeartbeats == 2
MaxChunk == 1
MaxLen == 1
MaxSessions == 1
MaxEvents == 4
MaxRetry == 1
MaxWaiters == 1
MaxRepositories == 1
MaxWriting == 1
MaxClientNodes == 1
MaxPushers == 2
MaxAppends == 2
MaxMirrors == 2
MaxServers == 1
MaxTerm == 2
MaxStored == 2
MaxEntries == 1
MaxCommit == 1

Nodes == 1..NumNodes
Values == 1..MaxValue
None == 0
NoResult == [node |-> None, status |-> 0, last_term |-> 0, last_index |-> 0]
NoRpc == [handler |-> "", node |-> None, success |-> FALSE]

FOLLOWER == "follower"
CANDIDATE == "candidate"
LEADER == "leader"

VARIABLES
    state,          \* Node.state
    current_term,   \* Node.current_term
    voted_for,      \* Node.voted_for (None or a node identifier)
    log,            \* Node.log: sequence of <<term, action>>
    commit_index,   \* Node.commit_index
    next_index,     \* RemoteNode.next_index, per node and peer
    match_index,    \* RemoteNode.match_index, per node and peer
    timer,          \* Node._heartbeat: an election timer is pending
    loops,          \* the do_gather_votes coroutines of each node
    vote_reqs,      \* request-vote requests in flight
    heartbeats,     \* the do_heartbeat coroutines awaiting their response
    granted,        \* history: <<voter, term, candidate>> of every granted vote
    committed,      \* history: <<index, entry>> replicated on a quorum by a leader in its term
    add_result,     \* the response of the /add-entry endpoint, in the step that sends it
    rpc_result,     \* the response of /request-vote or /append-entries to a caller
                    \* outside the cluster, in the step that sends it
    log_file,       \* the log file of each node: its lines, and how many are synced
    log_lock,       \* Node.log_lock of each node: TRUE while it is held
    appends,        \* the calls of Node.append of each node that have not returned
    sessions,       \* request.app["sessions"]: upload session -> node, repository, hasher
    uploads,        \* {image_dir}/uploads of each node: <<session, content>>
    blobs,          \* {image_dir}/blobs of each node: <<hash, content>>
    manifests,      \* {image_dir}/manifests of each node: <<hash, content>>
    writing,        \* put_manifest handlers between opening and writing their file
    events,         \* the committed actions, in log order
    applied,        \* how many committed actions each node has applied
    blob_locations, \* Mirrorer.blob_locations of each node: <<hash, location>>
    blob_repos,     \* Mirrorer.blob_repos of each node: <<hash, repository>>
    manifest_locations,
    manifest_repos,
    tasks,          \* the download coroutines and scheduled retries of each node
    futures,        \* Mirrorer._futures of each node: pending waiters per hash
    resolved,       \* waiters of each node that got their path
    http_result     \* the response of a registry endpoint, in the step that sends it

raft_vars == <<state, current_term, voted_for, log, commit_index, next_index,
               match_index, timer, loops, vote_reqs, heartbeats, granted,
               committed, add_result, rpc_result, log_file, log_lock, appends>>

mirror_vars == <<sessions, uploads, blobs, manifests, writing, events, applied,
                 blob_locations, blob_repos, manifest_locations, manifest_repos,
                 tasks, futures, resolved, http_result>>

vars == <<raft_vars, mirror_vars>>

Peers(n) == Nodes \ {n}

last_term(n) == IF Len(log[n]) = 0 THEN 0 ELSE log[n][Len(log[n])][1]

last_index(n) == Len(log[n])

(***************************************************************************)
(* Node.append from its call to its return, for every entry a step adds to *)
(* a log: the line of the entry is written to the log file of the node and *)
(* synced before the entry is in the log.                                  *)
(***************************************************************************)
append ==
    log_file' = [n \in Nodes |->
        [lines |-> log_file[n].lines \o SubSeq(log'[n], Len(log[n]) + 1, Len(log'[n])),
         synced |-> log_file[n].synced + (Len(log'[n]) - Len(log[n]))]]

cluster_size(n) == Cardinality(Peers(n)) + 1

quorum(n) == (cluster_size(n) \div 2) + 1

(***************************************************************************)
(* Python's seq[k:] for k >= -1: a negative start counts from the end.     *)
(***************************************************************************)
SliceFrom(s, k) ==
    IF k >= 0 THEN SubSeq(s, k + 1, Len(s))
    ELSE SubSeq(s, IF Len(s) + k < 0 THEN 1 ELSE Len(s) + k + 1, Len(s))

(***************************************************************************)
(* Entries a leader has replicated on a quorum while leader in the term of *)
(* the entry (the commit rule of the design, evaluated on the logs).       *)
(***************************************************************************)
CommittedNow ==
    UNION { { <<j, log[l][j]>> : j \in { i \in 1..Len(log[l]) :
                /\ log[l][i][1] = current_term[l]
                /\ Cardinality({l} \cup { p \in Peers(l) :
                       /\ match_index[l][p] >= i
                       /\ Len(log[p]) >= i
                       /\ log[p][i] = log[l][i] }) >= quorum(l) } }
            : l \in { n \in Nodes : state[n] = LEADER } }

(***************************************************************************)
(* Content and digests.  An uploaded body is a sequence of chunks.  A      *)
(* digest string is a sequence of tokens: hexdigest gives the one token    *)
(* that stands for the SHA-256 of the data (no two contents collide), and  *)
(* the "sha256:" prefix of the wire format is a token put in front.        *)
(***************************************************************************)
Chunks == 1..MaxChunk

Contents == UNION { [1..k -> Chunks] : k \in 0..MaxLen }

Repositories == 1..MaxRepositories

SessionIds == 1..MaxSessions

\* the nodes the clients of the registry talk to
ClientNodes == 1..MaxClientNodes

\* the nodes that clients push the same manifest to
Pushers == 1..MaxPushers

\* the nodes whose reducers and worker pool are followed
MirrorNodes == 1..MaxMirrors

hexdigest(data) == << [lit |-> "hex", of |-> data] >>

sha256_prefixed(hash) == << [lit |-> "sha256:", of |-> <<>>] >> \o hash

invalid_hash_here == << [lit |-> "invalid_hash_here", of |-> <<>>] >>

Hashes == { hexdigest(c) : c \in Contents }

\* the digest query parameters a client may send with the PUT of an upload
DeclaredDigests ==
    { sha256_prefixed(h) : h \in Hashes } \cup Hashes \cup
    { sha256_prefixed(invalid_hash_here) }

NoSession == [node |-> None, hasher |-> <<>>]

NoResponse == [handler |-> "", node |-> None, status |-> 0]

BLOB_STORED == "blob-stored"
BLOB_MOUNTED == "blob-mounted"
MANIFEST_STORED == "manifest-stored"
MANIFEST_MOUNTED == "manifest-mounted"
HASH_TAGGED == "hash-tagged"

(***************************************************************************)
(* The election rounds started so far in the cluster: every round adds one *)
(* to the current_term of its candidate.                                   *)
(***************************************************************************)
RECURSIVE SumTerms(_)
SumTerms(S) ==
    IF S = {} THEN 0
    ELSE LET x == CHOOSE y \in S : TRUE IN current_term[x] + SumTerms(S \ {x})

Rounds == SumTerms(Nodes)

Init ==
    /\ state = [n \in Nodes |-> FOLLOWER]
    /\ current_term = [n \in Nodes |-> 0]
    /\ voted_for = [n \in Nodes |-> None]
    /\ log = [n \in Nodes |-> <<>>]
    /\ commit_index = [n \in Nodes |-> 0]
    /\ next_index = [n \in Nodes |-> [p \in Nodes |-> 1]]
    /\ match_index = [n \in Nodes |-> [p \in Nodes |-> 0]]
    /\ timer = [n \in Nodes |-> TRUE]
    /\ loops = [n \in Nodes |-> {}]
    /\ vote_reqs = {}
    /\ heartbeats = {}
    /\ granted = {}
    /\ committed = {}
    /\ add_result = NoResult
    /\ rpc_result = NoRpc
    /\ log_file = [n \in Nodes |-> [lines |-> <<>>, synced |-> 0]]
    /\ log_lock = [n \in Nodes |-> FALSE]
    /\ appends = [n \in Nodes |-> {}]
    /\ sessions = [i \in SessionIds |-> NoSession]
    /\ uploads = [n \in Nodes |-> {}]
    /\ blobs = [n \in Nodes |-> {}]
    /\ manifests = [n \in Nodes |-> {}]
    /\ writing = {}
    /\ events = <<>>
    /\ applied = [n \in Nodes |-> 0]
    /\ blob_locations = [n \in Nodes |-> {}]
    /\ blob_repos = [n \in Nodes |-> {}]
    /\ manifest_locations = [n \in Nodes |-> {}]
    /\ manifest_repos = [n \in Nodes |-> {}]
    /\ tasks = [n \in Nodes |-> EmptyBag]
    /\ futures = [n \in Nodes |-> [h \in Hashes |-> 0]]
    /\ resolved = [n \in Nodes |-> [h \in Hashes |-> FALSE]]
    /\ http_result = NoResponse

\* maybe_become_follower taking a request of the leader's own term as newer
maybe_become_follower_same_term(n, term) ==
    state[n] = LEADER /\ term >= current_term[n]

(***************************************************************************)
(* The test of Node.maybe_become_follower.  The handlers that call it set  *)
(* the role to follower and start a fresh election timer when it holds.    *)
(***************************************************************************)
maybe_become_follower(n, term) ==
    state[n] = LEADER /\ term > current_term[n]

(***************************************************************************)
(* One pass of the while loop of do_gather_votes on node n, from the loop  *)
(* test to the await of the gathered requests; rest are the other loops of *)
(* the node.  The loop ends when the node is no candidate any more.        *)
(***************************************************************************)
gather_round(n, st, rest, reqs) ==
    IF st = CANDIDATE
    THEN /\ Rounds < MaxRounds
         /\ current_term' = [current_term EXCEPT ![n] = @ + 1]
         /\ voted_for' = [voted_for EXCEPT ![n] = n]
         /\ loops' = [loops EXCEPT ![n] = rest \cup
                {[term |-> current_term[n] + 1, phase |-> "waiting",
                  votes |-> {}, pending |-> Peers(n)]}]
         /\ vote_reqs' = reqs \cup
                { [src |-> n, dst |-> p, term |-> current_term[n] + 1,
                   last_index |-> last_index(n), last_term |-> last_term(n)]
                  : p \in Peers(n) }
    ELSE /\ loops' = [loops EXCEPT ![n] = rest]
         /\ vote_reqs' = reqs
         /\ UNCHANGED <<current_term, voted_for>>

(***************************************************************************)
(* The election timer of node n fires: Node.become_candidate, and the      *)
(* first pass of the do_gather_votes coroutine it starts.                  *)
(***************************************************************************)
become_candidate(n) ==
    /\ timer[n]
    /\ timer' = [timer EXCEPT ![n] = FALSE]
    /\ IF state[n] = LEADER
       THEN UNCHANGED <<state, current_term, voted_for, loops, vote_reqs>>
       ELSE /\ state' = [state EXCEPT ![n] = CANDIDATE]
            /\ gather_round(n, CANDIDATE, loops[n], vote_reqs)
    /\ UNCHANGED <<log, commit_index, next_index, match_index, heartbeats,
                   granted>>
    /\ add_result' = NoResult
    /\ committed' = committed \cup CommittedNow'
    /\ rpc_result' = NoRpc
    /\ append
    /\ UNCHANGED <<log_lock, appends>>
    /\ UNCHANGED mirror_vars

(***************************************************************************)
(* asyncio.wait_for times out in do_gather_votes: the requests not yet     *)
(* answered are cancelled and the loop starts again.                       *)
(***************************************************************************)
gather_timeout(n, l) ==
    /\ l \in loops[n]
    /\ l.phase = "waiting"
    /\ l.pending # {}
    /\ gather_round(n, state[n], loops[n] \ {l},
                    { m \in vote_reqs : ~(m.src = n /\ m.term = l.term) })
    /\ UNCHANGED <<state, log, commit_index, next_index, match_index, timer,
                   heartbeats, granted>>
    /\ add_result' = NoResult
    /\ committed' = committed \cup CommittedNow'
    /\ rpc_result' = NoRpc
    /\ append
    /\ UNCHANGED <<log_lock, appends>>
    /\ UNCHANGED mirror_vars

(***************************************************************************)
(* The answer to the vote request m reaches the round of do_gather_votes   *)
(* that sent it.                                                           *)
(***************************************************************************)
answer_vote(m, yes) ==
    [p \in Nodes |->
        IF p # m.src THEN loops[p]
        ELSE { IF l.term = m.term /\ l.phase = "waiting"
               THEN [l EXCEPT !.pending = @ \ {m.dst},
                              !.votes = IF yes THEN @ \cup {m.dst} ELSE @]
               ELSE l : l \in loops[p] }]

\* RemoteNode.send_request_vote gets a status other than 200: no vote
send_request_vote_fails(m) ==
    /\ m \in vote_reqs
    /\ vote_reqs' = vote_reqs \ {m}
    /\ loops' = answer_vote(m, FALSE)
    /\ UNCHANGED <<state, current_term, voted_for, log, commit_index, next_index,
                   match_index, timer, heartbeats, granted, committed>>
    /\ add_result' = NoResult
    /\ rpc_result' = NoRpc
    /\ append
    /\ UNCHANGED <<log_lock, appends>>
    /\ UNCHANGED mirror_vars

(***************************************************************************)
(* Node.recv_request_vote on the receiver of request m.                    *)
(***************************************************************************)
vote_granted(m) ==
    /\ ~(m.term < current_term[m.dst])
    /\ ~(m.term = current_term[m.dst] /\ voted_for[m.dst] # None)
    /\ ~(m.last_term < last_term(m.dst))
    /\ ~(m.last_index < last_index(m.dst))

handle_request_vote(m) ==
    /\ IF maybe_become_follower(m.dst, m.term)
       THEN /\ state' = [state EXCEPT ![m.dst] = FOLLOWER]
            /\ timer' = [timer EXCEPT ![m.dst] = TRUE]
       ELSE UNCHANGED <<state, timer>>
    /\ IF vote_granted(m)
       THEN /\ voted_for' = [voted_for EXCEPT ![m.dst] = m.src]
            /\ granted' = granted \cup {<<m.dst, m.term, m.src>>}
       ELSE UNCHANGED <<voted_for, granted>>

\* the request m of a candidate of the cluster is handled and answered
recv_request_vote(m) ==
    /\ m \in vote_reqs
    /\ vote_reqs' = vote_reqs \ {m}
    /\ handle_request_vote(m)
    /\ loops' = answer_vote(m, vote_granted(m))
    /\ UNCHANGED <<current_term, log, commit_index, next_index, match_index,
                   heartbeats>>
    /\ add_result' = NoResult
    /\ committed' = committed \cup CommittedNow'
    /\ rpc_result' = NoRpc
    /\ append
    /\ UNCHANGED <<log_lock, appends>>
    /\ UNCHANGED mirror_vars

(***************************************************************************)
(* All requests of a round are answered: do_gather_votes counts the votes  *)
(* and calls become_leader on a quorum, or sleeps before the next round.   *)
(***************************************************************************)
gather_done(n, l) ==
    /\ l \in loops[n]
    /\ l.phase = "waiting"
    /\ l.pending = {}
    /\ IF 1 + Cardinality(l.votes) >= quorum(n)
       THEN /\ state' = [state EXCEPT ![n] = LEADER]
            /\ timer' = [timer EXCEPT ![n] = FALSE]
            /\ loops' = [loops EXCEPT ![n] = @ \ {l}]
       ELSE /\ loops' = [loops EXCEPT ![n] = (@ \ {l}) \cup {[l EXCEPT !.phase = "sleeping"]}]
            /\ UNCHANGED <<state, timer>>
    /\ UNCHANGED <<current_term, voted_for, log, commit_index, next_index,
                   match_index, vote_reqs, heartbeats, granted>>
    /\ add_result' = NoResult
    /\ committed' = committed \cup CommittedNow'
    /\ rpc_result' = NoRpc
    /\ append
    /\ UNCHANGED <<log_lock, appends>>
    /\ UNCHANGED mirror_vars

(***************************************************************************)
(* The sleep after a lost round ends: the while loop tests the role again. *)
(***************************************************************************)
gather_sleep_done(n, l) ==
    /\ l \in loops[n]
    /\ l.phase = "sleeping"
    /\ gather_round(n, state[n], loops[n] \ {l}, vote_reqs)
    /\ UNCHANGED <<state, log, commit_index, next_index, match_index, timer,
                   heartbeats, granted>>
    /\ add_result' = NoResult
    /\ committed' = committed \cup CommittedNow'
    /\ rpc_result' = NoRpc
    /\ append
    /\ UNCHANGED <<log_lock, appends>>
    /\ UNCHANGED mirror_vars

(***************************************************************************)
(* The request Node.do_heartbeat of leader n builds for peer p from        *)
(* match_index and next_index; i tells apart the coroutines of one peer.   *)
(***************************************************************************)
append_entries_request(n, p, i) ==
    [src |-> n, dst |-> p, id |-> i,
     term |-> current_term[n],
     prev_index |-> match_index[n][p],
     prev_term |-> IF match_index[n][p] # 0
                   THEN log[n][match_index[n][p]][1] ELSE 0,
     entries |-> SliceFrom(log[n], next_index[n][p] - 1),
     leader_commit |-> commit_index[n],
     phase |-> "sent", success |-> FALSE]

(***************************************************************************)
(* Node.recv_append_entries on the receiver of request h: the result, and  *)
(* what the handler does to the receiver.                                  *)
(***************************************************************************)
append_success(h) ==
    /\ ~(h.term < current_term[h.dst])
    /\ ~(h.prev_index > last_index(h.dst))
    /\ ~(h.prev_index # 0 /\ log[h.dst][h.prev_index][1] # h.prev_term)

min(a, b) == IF a < b THEN a ELSE b

\* recv_append_entries without the early returns: the entries are stored
\* whatever the result is
handle_append_entries_always(h) ==
    /\ state' = [state EXCEPT ![h.dst] =
                    IF maybe_become_follower(h.dst, h.term) THEN FOLLOWER ELSE @]
    /\ timer' = [timer EXCEPT ![h.dst] = TRUE]
    /\ log' = [log EXCEPT ![h.dst] = @ \o h.entries]
    /\ commit_index' = [commit_index EXCEPT ![h.dst] =
          IF h.leader_commit > @
          THEN min(h.leader_commit, Len(log'[h.dst]) - 1)
          ELSE @]

handle_append_entries(h) ==
    /\ state' = [state EXCEPT ![h.dst] =
                    IF maybe_become_follower(h.dst, h.term) THEN FOLLOWER ELSE @]
    /\ timer' = [timer EXCEPT ![h.dst] = TRUE]
    /\ IF append_success(h)
       THEN /\ log' = [log EXCEPT ![h.dst] = @ \o h.entries]
            /\ commit_index' = [commit_index EXCEPT ![h.dst] =
                  IF h.leader_commit > @
                  THEN min(h.leader_commit, Len(log'[h.dst]) - 1)
                  ELSE @]
       ELSE UNCHANGED <<log, commit_index>>

(***************************************************************************)
(* Node.do_heartbeat after the await: what the leader does with the        *)
(* response to request h.                                                  *)
(***************************************************************************)
handle_append_response(h, success) ==
    IF ~success
    THEN /\ next_index' = [next_index EXCEPT ![h.src][h.dst] =
                             IF @ > 0 THEN @ - 1 ELSE @]
         /\ UNCHANGED match_index
    ELSE /\ match_index' = [match_index EXCEPT ![h.src][h.dst] = @ + Len(h.entries)]
         /\ next_index' = [next_index EXCEPT ![h.src][h.dst] = @ + Len(h.entries)]

(***************************************************************************)
(* A heartbeat of leader n to peer p whose request is handled and answered *)
(* before anything else runs: do_heartbeat on n with recv_append_entries   *)
(* on p.  do_heartbeat raises on a match_index beyond the log.             *)
(***************************************************************************)
heartbeat(n, p) ==
    /\ state[n] = LEADER
    /\ match_index[n][p] <= Len(log[n])
    /\ append_success(append_entries_request(n, p, 1)) =>
          Len(log[p]) + Len(append_entries_request(n, p, 1).entries) <= MaxLog
    /\ handle_append_entries(append_entries_request(n, p, 1))
    /\ handle_append_response(append_entries_request(n, p, 1),
                              append_success(append_entries_request(n, p, 1)))
    /\ UNCHANGED <<current_term, voted_for, loops, vote_reqs, heartbeats, granted>>
    /\ add_result' = NoResult
    /\ committed' = committed \cup CommittedNow'
    /\ rpc_result' = NoRpc
    /\ append
    /\ UNCHANGED <<log_lock, appends>>
    /\ UNCHANGED mirror_vars

(***************************************************************************)
(* The same exchange in its three steps: do_heartbeat sends the request,   *)
(* the peer handles it, the leader handles the response.  At most          *)
(* MaxHeartbeats requests of one leader to one peer are in flight.         *)
(***************************************************************************)
free_ids(n, p) ==
    { i \in 1..MaxHeartbeats : \A h \in heartbeats : ~(h.src = n /\ h.dst = p /\ h.id = i) }

do_heartbeat(n, p) ==
    /\ state[n] = LEADER
    /\ free_ids(n, p) # {}
    /\ match_index[n][p] <= Len(log[n])
    /\ heartbeats' = heartbeats \cup
          {append_entries_request(n, p,
              CHOOSE i \in free_ids(n, p) : \A j \in free_ids(n, p) : i <= j)}
    /\ UNCHANGED <<state, current_term, voted_for, log, commit_index, next_index,
                   match_index, timer, loops, vote_reqs, granted, committed>>
    /\ add_result' = NoResult
    /\ rpc_result' = NoRpc
    /\ append
    /\ UNCHANGED <<log_lock, appends>>
    /\ UNCHANGED mirror_vars

recv_append_entries(h) ==
    /\ h \in heartbeats
    /\ h.phase = "sent"
    /\ append_success(h) => Len(log[h.dst]) + Len(h.entries) <= MaxStored
    /\ handle_append_entries(h)
    /\ heartbeats' = (heartbeats \ {h}) \cup
          {[h EXCEPT !.phase = "done", !.success = append_success(h)]}
    /\ UNCHANGED <<current_term, voted_for, next_index, match_index, loops,
                   vote_reqs, granted>>
    /\ add_result' = NoResult
    /\ committed' = committed \cup CommittedNow'
    /\ rpc_result' = NoRpc
    /\ append
    /\ UNCHANGED <<log_lock, appends>>
    /\ UNCHANGED mirror_vars

(***************************************************************************)
(* RemoteNode.send_append_entries gets a status other than 200: the        *)
(* request counts as answered with success = false.                        *)
(***************************************************************************)
send_append_entries_fails(h) ==
    /\ h \in heartbeats
    /\ h.phase = "sent"
    /\ heartbeats' = (heartbeats \ {h}) \cup {[h EXCEPT !.phase = "done"]}
    /\ UNCHANGED <<state, current_term, voted_for, log, commit_index, next_index,
                   match_index, timer, loops, vote_reqs, granted, committed>>
    /\ add_result' = NoResult
    /\ rpc_result' = NoRpc
    /\ append
    /\ UNCHANGED <<log_lock, appends>>
    /\ UNCHANGED mirror_vars

heartbeat_response(h) ==
    /\ h \in heartbeats
    /\ h.phase = "done"
    /\ heartbeats' = heartbeats \ {h}
    /\ handle_append_response(h, h.success)
    /\ UNCHANGED <<state, current_term, voted_for, log, commit_index, timer,
                   loops, vote_reqs, granted>>
    /\ add_result' = NoResult
    /\ committed' = committed \cup CommittedNow'
    /\ rpc_result' = NoRpc
    /\ append
    /\ UNCHANGED <<log_lock, appends>>
    /\ UNCHANGED mirror_vars

(***************************************************************************)
(* /add-entry without the role test: any node appends.                     *)
(***************************************************************************)
add_entry_any_role(n, v) ==
    /\ Len(log[n]) < MaxLog
    /\ log' = [log EXCEPT ![n] = Append(@, <<current_term[n], v>>)]
    /\ add_result' = [node |-> n, status |-> 200,
                       last_term |-> current_term[n],
                       last_index |-> Len(log[n]) + 1]
    /\ UNCHANGED <<state, current_term, voted_for, commit_index, next_index,
                   match_index, timer, loops, vote_reqs, heartbeats, granted>>
    /\ committed' = committed \cup CommittedNow'
    /\ rpc_result' = NoRpc
    /\ append
    /\ UNCHANGED <<log_lock, appends>>
    /\ UNCHANGED mirror_vars

(***************************************************************************)
(* The /add-entry endpoint of node n with action v: Node.add_entry and     *)
(* Node.append on a leader, the NOT_A_LEADER response on any other node.   *)
(***************************************************************************)
add_entry(n, v) ==
    /\ IF state[n] # LEADER
       THEN /\ add_result' = [node |-> n, status |-> 400, last_term |-> 0,
                               last_index |-> 0]
            /\ UNCHANGED log
       ELSE /\ Len(log[n]) < MaxLog
            /\ log' = [log EXCEPT ![n] = Append(@, <<current_term[n], v>>)]
            /\ add_result' = [node |-> n, status |-> 200,
                               last_term |-> current_term[n],
                               last_index |-> Len(log[n]) + 1]
    /\ UNCHANGED <<state, current_term, voted_for, commit_index, next_index,
                   match_index, timer, loops, vote_reqs, heartbeats, granted>>
    /\ committed' = committed \cup CommittedNow'
    /\ rpc_result' = NoRpc
    /\ append
    /\ UNCHANGED <<log_lock, appends>>
    /\ UNCHANGED mirror_vars

(***************************************************************************)
(* The /request-vote and /append-entries endpoints as a caller outside the *)
(* cluster sees them.  Servers are the nodes that are called this way.  A  *)
(* payload is well formed: an index of 0 comes with a term of 0 and the    *)
(* other way round.  The action an entry carries is not read by the        *)
(* handlers, so every entry of a payload carries the same one.             *)
(***************************************************************************)
Servers == 1..MaxServers

Terms == 1..MaxTerm

Caller(d) == CHOOSE p \in Peers(d) : TRUE

VotePayloads ==
    { m \in [src : Nodes, dst : Servers, term : Terms,
             last_index : 0..MaxStored, last_term : 0..MaxTerm] :
        /\ m.src = Caller(m.dst)
        /\ (m.last_index = 0) <=> (m.last_term = 0) }

PayloadEntries ==
    UNION { [1..k -> { <<t, CHOOSE v \in Values : TRUE>> : t \in Terms }]
            : k \in 0..MaxEntries }

AppendPayloads ==
    { h \in [src : Nodes, dst : Servers, id : {1}, term : Terms,
             prev_index : 0..MaxStored, prev_term : 0..MaxTerm,
             entries : PayloadEntries, leader_commit : 0..MaxCommit,
             phase : {"sent"}, success : {FALSE}] :
        /\ h.src = Caller(h.dst)
        /\ (h.prev_index = 0) <=> (h.prev_term = 0) }

\* the response of the /request-vote route to payload m
respond_request_vote(m) ==
    /\ rpc_result' = [handler |-> "request-vote", node |-> m.dst,
                       success |-> vote_granted(m)]
    /\ handle_request_vote(m)

\* the response of the /append-entries route to payload h
respond_append_entries(h) ==
    /\ rpc_result' = [handler |-> "append-entries", node |-> h.dst,
                       success |-> append_success(h)]
    /\ handle_append_entries(h)

\* the /request-vote route called with payload m
request_vote(m) ==
    /\ respond_request_vote(m)
    /\ UNCHANGED <<current_term, log, commit_index, next_index, match_index,
                   loops, vote_reqs, heartbeats>>
    /\ add_result' = NoResult
    /\ committed' = committed \cup CommittedNow'
    /\ append
    /\ UNCHANGED <<log_lock, appends>>
    /\ UNCHANGED mirror_vars

\* the /append-entries route called with payload h
append_entries(h) ==
    /\ append_success(h) => Len(log[h.dst]) + Len(h.entries) <= MaxStored
    /\ respond_append_entries(h)
    /\ UNCHANGED <<current_term, voted_for, next_index, match_index, loops,
                   vote_reqs, heartbeats, granted>>
    /\ add_result' = NoResult
    /\ committed' = committed \cup CommittedNow'
    /\ append
    /\ UNCHANGED <<log_lock, appends>>
    /\ UNCHANGED mirror_vars

(***************************************************************************)
(* Files of a node's images directory: a set of <<name, content>> pairs,   *)
(* one pair per name.  A blob or manifest file is named by the hash that   *)
(* get_blob_path / get_manifest_path are given, an upload file by its      *)
(* session id.                                                             *)
(***************************************************************************)
exists(files, name) == \E f \in files : f[1] = name

read_file(files, name) == (CHOOSE f \in files : f[1] = name)[2]

write_file(files, name, data) == { f \in files : f[1] # name } \cup {<<name, data>>}

unlink(files, name) == { f \in files : f[1] # name }

\* open(path, "ab") and the writes of the request body: the file is created
\* when missing and the body is added at its end
append_file(files, name, data) ==
    write_file(files, name,
               (IF exists(files, name) THEN read_file(files, name) ELSE <<>>) \o data)

(***************************************************************************)
(* The events of the registry, and send_action: the batch is committed to  *)
(* the replicated log as a whole.                                          *)
(***************************************************************************)
Event(type, hash, location, repository, tag) ==
    [type |-> type, hash |-> hash, location |-> location,
     repository |-> repository, tag |-> tag]

Tags == {"latest"}

send_action(batch) == events' = events \o batch

\* RegistryState.is_blob_available on node n, over the events applied there
is_blob_available(n, repository, hash) ==
    /\ \E i \in 1..applied[n] :
          events[i].type = BLOB_STORED /\ events[i].hash = hash
    /\ \E i \in 1..applied[n] :
          /\ events[i].type = BLOB_MOUNTED /\ events[i].hash = hash
          /\ events[i].repository = repository

Response(handler, n, status) == [handler |-> handler, node |-> n, status |-> status]

(***************************************************************************)
(* POST /v2/{repository}/blobs/uploads/ on node n: a new session with a    *)
(* fresh hasher.                                                           *)
(***************************************************************************)
start_upload(n, repository) ==
    /\ \E id \in SessionIds :
          /\ sessions[id] = NoSession
          /\ \A j \in SessionIds : sessions[j] = NoSession => id <= j
          /\ sessions' = [sessions EXCEPT ![id] = [node |-> n, hasher |-> <<>>]]
          /\ http_result' = NoResponse
    /\ UNCHANGED <<uploads, blobs, manifests, writing, events, applied,
                   blob_locations, blob_repos, manifest_locations,
                   manifest_repos, tasks, futures, resolved>>
    /\ UNCHANGED raft_vars

(***************************************************************************)
(* PATCH /v2/{repository}/blobs/uploads/{session_id} on node n with the    *)
(* body chunk.                                                             *)
(***************************************************************************)
upload_chunk_by_patch(n, session_id, chunk) ==
    /\ IF sessions[session_id].node # n
       THEN /\ http_result' = NoResponse
            /\ UNCHANGED <<sessions, uploads>>
       ELSE /\ Len(sessions[session_id].hasher) + Len(chunk) <= MaxLen
            /\ uploads' = [uploads EXCEPT ![n] = append_file(@, session_id, chunk)]
            /\ sessions' = [sessions EXCEPT ![session_id].hasher = @ \o chunk]
            /\ http_result' = NoResponse
    /\ UNCHANGED <<blobs, manifests, writing, events, applied, blob_locations,
                   blob_repos, manifest_locations, manifest_repos, tasks,
                   futures, resolved>>
    /\ UNCHANGED raft_vars

(***************************************************************************)
(* PUT on the upload session without the comparison of the digests.        *)
(***************************************************************************)
upload_finish_unchecked(n, session_id, repository, body, expected_digest) ==
    /\ sessions[session_id].node = n
    /\ Len(sessions[session_id].hasher) + Len(body) <= MaxLen
    /\ sessions' = [sessions EXCEPT ![session_id].hasher = @ \o body]
    /\ blobs' = [blobs EXCEPT ![n] =
          write_file(@, hexdigest(sessions'[session_id].hasher),
                     read_file(append_file(uploads[n], session_id, body), session_id))]
    /\ uploads' = [uploads EXCEPT ![n] = unlink(@, session_id)]
    /\ Len(events) + 2 <= MaxEvents
    /\ send_action(<<Event(BLOB_STORED, hexdigest(sessions'[session_id].hasher), n, 0, ""),
                     Event(BLOB_MOUNTED, hexdigest(sessions'[session_id].hasher), None,
                           repository, "")>>)
    /\ http_result' = Response("upload_finish", n, 201)
    /\ UNCHANGED <<manifests, writing, applied, blob_locations, blob_repos,
                   manifest_locations, manifest_repos, tasks, futures, resolved>>
    /\ UNCHANGED raft_vars

(***************************************************************************)
(* PUT /v2/{repository}/blobs/uploads/{session_id}?digest=expected_digest  *)
(* on node n with the last part of the content as body.                    *)
(***************************************************************************)
upload_finish(n, session_id, repository, body, expected_digest) ==
    /\ IF sessions[session_id].node # n
       THEN /\ http_result' = Response("upload_finish", n, 400)
            /\ UNCHANGED <<sessions, uploads, blobs, events>>
       ELSE /\ Len(sessions[session_id].hasher) + Len(body) <= MaxLen
            /\ sessions' = [sessions EXCEPT ![session_id].hasher = @ \o body]
            /\ IF expected_digest # sha256_prefixed(hexdigest(sessions'[session_id].hasher))
               THEN /\ uploads' = [uploads EXCEPT ![n] = append_file(@, session_id, body)]
                    /\ http_result' = Response("upload_finish", n, 400)
                    /\ UNCHANGED <<blobs, events>>
               ELSE /\ blobs' = [blobs EXCEPT ![n] =
                          write_file(@, hexdigest(sessions'[session_id].hasher),
                                     read_file(append_file(uploads[n], session_id, body),
                                               session_id))]
                    /\ uploads' = [uploads EXCEPT ![n] = unlink(@, session_id)]
                    /\ \E success \in BOOLEAN :
                          IF success
                          THEN /\ Len(events) + 2 <= MaxEvents
                               /\ send_action(
                                    <<Event(BLOB_STORED,
                                            hexdigest(sessions'[session_id].hasher), n, 0, ""),
                                      Event(BLOB_MOUNTED,
                                            hexdigest(sessions'[session_id].hasher), None,
                                            repository, "")>>)
                               /\ http_result' = Response("upload_finish", n, 201)
                          ELSE /\ UNCHANGED events
                               /\ http_result' = Response("upload_finish", n, 400)
    /\ UNCHANGED <<manifests, writing, applied, blob_locations, blob_repos,
                   manifest_locations, manifest_repos, tasks, futures, resolved>>
    /\ UNCHANGED raft_vars

(***************************************************************************)
(* PUT /v2/{repository}/manifests/{tag} on node n, up to the first write:  *)
(* the manifest file is opened with "wb", which creates or empties it.     *)
(***************************************************************************)
put_manifest_open(n, repository, tag, manifest) ==
    /\ Cardinality(writing) < MaxWriting
    /\ writing' = writing \cup
          {[node |-> n, repository |-> repository, tag |-> tag, manifest |-> manifest]}
    /\ manifests' = [manifests EXCEPT ![n] = write_file(@, hexdigest(manifest), <<>>)]
    /\ http_result' = NoResponse
    /\ UNCHANGED <<sessions, uploads, blobs, events, applied, blob_locations,
                   blob_repos, manifest_locations, manifest_repos, tasks,
                   futures, resolved>>
    /\ UNCHANGED raft_vars

(***************************************************************************)
(* The rest of put_manifest for the request w: the body is written and     *)
(* synced, and the three events are sent.                                  *)
(***************************************************************************)
put_manifest(w) ==
    /\ w \in writing
    /\ writing' = writing \ {w}
    /\ manifests' = [manifests EXCEPT ![w.node] =
                        write_file(@, hexdigest(w.manifest), w.manifest)]
    /\ \E success \in BOOLEAN :
          IF success
          THEN /\ Len(events) + 3 <= MaxEvents
               /\ send_action(
                    <<Event(MANIFEST_STORED, hexdigest(w.manifest), w.node, 0, ""),
                      Event(MANIFEST_MOUNTED, hexdigest(w.manifest), None, w.repository, ""),
                      Event(HASH_TAGGED, hexdigest(w.manifest), None, w.repository, w.tag)>>)
               /\ http_result' = NoResponse
          ELSE /\ UNCHANGED events
               /\ http_result' = NoResponse
    /\ UNCHANGED <<sessions, uploads, blobs, applied, blob_locations, blob_repos,
                   manifest_locations, manifest_repos, tasks, futures, resolved>>
    /\ UNCHANGED raft_vars

(***************************************************************************)
(* The mirror of node n.  Its indexes are sets of <<hash, location>> and   *)
(* <<hash, repository>> pairs; its worker pool holds the coroutines given  *)
(* to pool.spawn, each a download of one hash with its retry count and the *)
(* point it has reached.                                                   *)
(***************************************************************************)
BLOB == "blob"
MANIFEST == "manifest"

locations(n, kind) == IF kind = BLOB THEN blob_locations[n] ELSE manifest_locations[n]

repos(n, kind) == IF kind = BLOB THEN blob_repos[n] ELSE manifest_repos[n]

files(n, kind) == IF kind = BLOB THEN blobs[n] ELSE manifests[n]

\* Mirrorer.should_download_blob and should_download_manifest on the indexes
\* locs and reps of node n
should_download(locs, reps, n, hash) ==
    /\ \E r \in reps : r[1] = hash
    /\ \E l \in locs : l[1] = hash
    /\ <<hash, n>> \notin locs

\* the peers and repositories urls_for_blob and urls_for_manifest can build
\* the url of hash from
urls_for(n, kind, hash) ==
    { <<l[2], r[2]>> : l \in { x \in locations(n, kind) : x[1] = hash /\ x[2] \in Peers(n) },
                       r \in { x \in repos(n, kind) : x[1] = hash } }

\* a coroutine of the worker pool, or the timer of its retry: delay is the
\* number of seconds the timer was set to
Task(kind, hash, retry_count, phase, peer, repository) ==
    [kind |-> kind, hash |-> hash, retry_count |-> retry_count, phase |-> phase,
     peer |-> peer, repository |-> repository, delay |-> 0]

spawn(pool, task) == pool (+) SetToBag({task})

finish(pool, task) == pool (-) SetToBag({task})

(***************************************************************************)
(* Mirrorer.dispatch on node n for the entry.                              *)
(***************************************************************************)
dispatch(n, entry) ==
    /\ blob_locations' = [blob_locations EXCEPT ![n] =
          IF entry.type = BLOB_STORED THEN @ \cup {<<entry.hash, entry.location>>} ELSE @]
    /\ blob_repos' = [blob_repos EXCEPT ![n] =
          IF entry.type = BLOB_MOUNTED THEN @ \cup {<<entry.hash, entry.repository>>} ELSE @]
    /\ manifest_locations' = [manifest_locations EXCEPT ![n] =
          IF entry.type = MANIFEST_STORED THEN @ \cup {<<entry.hash, entry.location>>} ELSE @]
    /\ manifest_repos' = [manifest_repos EXCEPT ![n] =
          IF entry.type = MANIFEST_MOUNTED THEN @ \cup {<<entry.hash, entry.repository>>} ELSE @]
    /\ tasks' = [tasks EXCEPT ![n] =
          IF /\ entry.type \in {BLOB_STORED, BLOB_MOUNTED}
             /\ should_download(blob_locations'[n], blob_repos'[n], n, entry.hash)
          THEN spawn(@, Task(BLOB, entry.hash, 0, "spawned", None, 0))
          ELSE IF /\ entry.type \in {MANIFEST_STORED, MANIFEST_MOUNTED}
                  /\ should_download(manifest_locations'[n], manifest_repos'[n], n,
                                     entry.hash)
          THEN spawn(@, Task(MANIFEST, entry.hash, 0, "spawned", None, 0))
          ELSE @]

(***************************************************************************)
(* The reducers of node n are given the next committed entry.              *)
(***************************************************************************)
apply_entry(n) ==
    /\ applied[n] < Len(events)
    /\ applied' = [applied EXCEPT ![n] = @ + 1]
    /\ dispatch(n, events[applied[n] + 1])
    /\ http_result' = NoResponse
    /\ UNCHANGED <<sessions, uploads, blobs, manifests, writing, events, futures,
                   resolved>>
    /\ UNCHANGED raft_vars

\* the futures of wait_for_blob that have no result yet, on all nodes
RECURSIVE SumFutures(_)
SumFutures(S) ==
    IF S = {} THEN 0
    ELSE LET x == CHOOSE y \in S : TRUE
         IN futures[x[1]][x[2]] + SumFutures(S \ {x})

Waiters == SumFutures(Nodes \X Hashes)

(***************************************************************************)
(* Mirrorer.wait_for_blob(digest) on node n.                               *)
(***************************************************************************)
wait_for_blob(n, digest) ==
    /\ IF <<digest, n>> \in blob_locations[n]
       THEN /\ http_result' = NoResponse
            /\ UNCHANGED futures
       ELSE /\ Waiters < MaxWaiters
            /\ futures' = [futures EXCEPT ![n][digest] = @ + 1]
            /\ http_result' = NoResponse
    /\ UNCHANGED resolved
    /\ UNCHANGED <<sessions, uploads, blobs, manifests, writing, events, applied,
                   blob_locations, blob_repos, manifest_locations, manifest_repos,
                   tasks>>
    /\ UNCHANGED raft_vars

(***************************************************************************)
(* The registry of a peer answers the GET of a mirror.  The url holds the  *)
(* hash as the mirror wrote it; only a hash with the "sha256:" prefix      *)
(* reaches get_blob_by_hash or get_manifest_by_hash.  A manifest url       *)
(* without the prefix reaches get_manifest_by_tag, and no tag is a digest. *)
(***************************************************************************)
has_prefix(hash) == Len(hash) > 1 /\ hash[1].lit = "sha256:"

get_blob_by_hash(peer, repository, hash) ==
    IF is_blob_available(peer, repository, hash) /\ exists(blobs[peer], hash)
    THEN [status |-> 200, body |-> read_file(blobs[peer], hash)]
    ELSE [status |-> 404, body |-> <<>>]

get_manifest_by_hash(peer, repository, hash) ==
    IF exists(manifests[peer], hash)
    THEN [status |-> 200, body |-> read_file(manifests[peer], hash)]
    ELSE [status |-> 404, body |-> <<>>]

http_get(kind, peer, repository, hash) ==
    IF ~has_prefix(hash) THEN [status |-> 404, body |-> <<>>]
    ELSE IF kind = BLOB THEN get_blob_by_hash(peer, repository, Tail(hash))
    ELSE get_manifest_by_hash(peer, repository, Tail(hash))

\* the retry counts from MaxRetry on are not told apart
retry(pool, t) ==
    spawn(finish(pool, t), [t EXCEPT !.phase = "scheduled", !.peer = None,
                                     !.repository = 0,
                                     !.delay = t.retry_count])

(***************************************************************************)
(* A coroutine t of the pool of node n starts: do_download_blob or         *)
(* do_download_manifest up to the GET that _do_transfer awaits.            *)
(***************************************************************************)
do_download(n, t) ==
    /\ BagIn(t, tasks[n])
    /\ t.phase = "spawned"
    /\ IF ~should_download(locations(n, t.kind), repos(n, t.kind), n, t.hash)
       THEN tasks' = [tasks EXCEPT ![n] = finish(@, t)]
       ELSE IF exists(files(n, t.kind), t.hash) \/ urls_for(n, t.kind, t.hash) = {}
       THEN tasks' = [tasks EXCEPT ![n] = retry(@, t)]
       ELSE \E url \in urls_for(n, t.kind, t.hash) :
               tasks' = [tasks EXCEPT ![n] =
                   spawn(finish(@, t), [t EXCEPT !.phase = "fetching",
                                                 !.peer = url[1],
                                                 !.repository = url[2]])]
    /\ http_result' = NoResponse
    /\ UNCHANGED <<sessions, uploads, blobs, manifests, writing, events, applied,
                   blob_locations, blob_repos, manifest_locations, manifest_repos,
                   futures, resolved>>
    /\ UNCHANGED raft_vars

(***************************************************************************)
(* The response to the GET of coroutine t arrives: the rest of             *)
(* _do_transfer, and of do_download_blob or do_download_manifest.          *)
(***************************************************************************)
do_transfer(n, t) ==
    /\ BagIn(t, tasks[n])
    /\ t.phase = "fetching"
    /\ IF \/ http_get(t.kind, t.peer, t.repository, t.hash).status # 200
          \/ sha256_prefixed(hexdigest(http_get(t.kind, t.peer, t.repository,
                                                t.hash).body)) # t.hash
       THEN /\ tasks' = [tasks EXCEPT ![n] = retry(@, t)]
            /\ UNCHANGED <<blobs, manifests, futures, resolved, events>>
       ELSE /\ IF t.kind = BLOB
               THEN /\ blobs' = [blobs EXCEPT ![n] = write_file(@, t.hash,
                          http_get(t.kind, t.peer, t.repository, t.hash).body)]
                    /\ UNCHANGED manifests
               ELSE /\ manifests' = [manifests EXCEPT ![n] = write_file(@, t.hash,
                          http_get(t.kind, t.peer, t.repository, t.hash).body)]
                    /\ UNCHANGED blobs
            /\ futures' = [futures EXCEPT ![n][t.hash] = 0]
            /\ resolved' = [resolved EXCEPT ![n][t.hash] = @ \/ futures[n][t.hash] > 0]
            /\ tasks' = [tasks EXCEPT ![n] = finish(@, t)]
            /\ \E success \in BOOLEAN :
                  IF success
                  THEN /\ Len(events) + 1 <= MaxEvents
                       /\ send_action(
                            <<Event(IF t.kind = BLOB THEN BLOB_STORED ELSE MANIFEST_STORED,
                                    t.hash, n, 0, "")>>)
                  ELSE UNCHANGED events
    /\ http_result' = NoResponse
    /\ UNCHANGED <<sessions, uploads, writing, applied, blob_locations, blob_repos,
                   manifest_locations, manifest_repos>>
    /\ UNCHANGED raft_vars

(***************************************************************************)
(* The timer of loop.call_later fires for coroutine t: the download is     *)
(* spawned again with the next retry count.                                *)
(***************************************************************************)
call_later(n, t) ==
    /\ BagIn(t, tasks[n])
    /\ t.phase = "scheduled"
    /\ tasks' = [tasks EXCEPT ![n] =
          spawn(finish(@, t), [t EXCEPT !.phase = "spawned", !.delay = 0,
                   !.retry_count = IF @ < MaxRetry THEN @ + 1 ELSE @])]
    /\ http_result' = NoResponse
    /\ UNCHANGED <<sessions, uploads, blobs, manifests, writing, events, applied,
                   blob_locations, blob_repos, manifest_locations, manifest_repos,
                   futures, resolved>>
    /\ UNCHANGED raft_vars

(***************************************************************************)
(* The worker pool cancels coroutine t while it awaits in _do_transfer.    *)
(* do_download_blob catches asyncio.CancelledError and goes on to the      *)
(* scheduling of the retry.  do_download_manifest has an except clause for *)
(* Exception only, which catches the cancellation where CancelledError is  *)
(* an Exception (Python up to 3.7) and lets it end the coroutine where it  *)
(* is a BaseException (Python 3.8 and later).                              *)
(***************************************************************************)
cancel(n, t) ==
    /\ BagIn(t, tasks[n])
    /\ t.phase = "fetching"
    /\ \E caught \in (IF t.kind = BLOB THEN {TRUE} ELSE BOOLEAN) :
          tasks' = [tasks EXCEPT ![n] = IF caught THEN retry(@, t) ELSE finish(@, t)]
    /\ http_result' = NoResponse
    /\ UNCHANGED <<sessions, uploads, blobs, manifests, writing, events, applied,
                   blob_locations, blob_repos, manifest_locations, manifest_repos,
                   futures, resolved>>
    /\ UNCHANGED raft_vars

(***************************************************************************)
(* The registry of the nodes that clients push to.                         *)
(***************************************************************************)
RegistryNext ==
    \/ \E n \in ClientNodes : \E r \in Repositories : start_upload(n, r)
    \/ \E n \in ClientNodes : \E id \in SessionIds : \E c \in Chunks :
          upload_chunk_by_patch(n, id, <<c>>)
    \/ \E n \in ClientNodes : \E id \in SessionIds : \E r \in Repositories :
       \E body \in {<<>>} \cup { <<c>> : c \in Chunks } : \E d \in DeclaredDigests :
          upload_finish(n, id, r, body, d)
    \/ \E n \in ClientNodes : \E r \in Repositories : \E tag \in Tags : \E m \in Contents :
          put_manifest_open(n, r, tag, m)
    \/ \E w \in writing : put_manifest(w)

SpecRegistry == Init /\ [][RegistryNext]_vars

(***************************************************************************)
(* Blob uploads, the reducers and the mirrors.                             *)
(***************************************************************************)
MirrorNext ==
    \/ \E n \in ClientNodes : \E r \in Repositories : start_upload(n, r)
    \/ \E n \in ClientNodes : \E id \in SessionIds : \E c \in Chunks :
          upload_chunk_by_patch(n, id, <<c>>)
    \/ \E n \in ClientNodes : \E id \in SessionIds : \E r \in Repositories :
       \E body \in {<<>>} \cup { <<c>> : c \in Chunks } : \E d \in DeclaredDigests :
          upload_finish(n, id, r, body, d)
    \/ \E n \in MirrorNodes : apply_entry(n)
    \/ \E n \in MirrorNodes : \E h \in Hashes : wait_for_blob(n, h)
    \/ \E n \in MirrorNodes : \E t \in BagToSet(tasks[n]) : do_download(n, t)
    \/ \E n \in MirrorNodes : \E t \in BagToSet(tasks[n]) : do_transfer(n, t)
    \/ \E n \in MirrorNodes : \E t \in BagToSet(tasks[n]) : call_later(n, t)
    \/ \E n \in MirrorNodes : \E t \in BagToSet(tasks[n]) : cancel(n, t)

SpecMirror == Init /\ [][MirrorNext]_vars

(***************************************************************************)
(* The event loop runs every coroutine that can run, fires every timer and *)
(* hands every committed entry to the reducers.  The requests of clients   *)
(* are under no obligation to happen.                                      *)
(***************************************************************************)
MirrorFairness ==
    \A n \in MirrorNodes :
        /\ WF_vars(apply_entry(n))
        /\ WF_vars(\E t \in BagToSet(tasks[n]) : do_download(n, t))
        /\ WF_vars(\E t \in BagToSet(tasks[n]) : do_transfer(n, t))
        /\ WF_vars(\E t \in BagToSet(tasks[n]) : call_later(n, t))

SpecMirrorFair == SpecMirror /\ MirrorFairness

(***************************************************************************)
(* The endpoints of a serving node under any traffic: payloads come from   *)
(* outside, the node's own election timer fires, and the vote requests it  *)
(* sends to its peers get no answer before the round times out.            *)
(***************************************************************************)
NextRpc ==
    \/ \E m \in VotePayloads : request_vote(m)
    \/ \E h \in AppendPayloads : append_entries(h)
    \/ \E n \in Servers : become_candidate(n)
    \/ \E n \in Servers : \E l \in loops[n] : gather_timeout(n, l)

SpecRpc == Init /\ [][NextRpc]_vars

(***************************************************************************)
(* A quiet cluster: the election timers fire on the Servers only, and the *)
(* leader's do_heartbeats loop keeps calling do_heartbeat for every peer.  *)
(* QuietFairness says that a timer that is armed fires, a request in       *)
(* flight is handled, a round whose requests are all answered counts its   *)
(* votes, and the heartbeat loop of a leader keeps running.  A round may   *)
(* time out, but need not.                                                 *)
(***************************************************************************)
QuietNext ==
    \/ \E n \in Servers : become_candidate(n)
    \/ \E n \in Servers : \E l \in loops[n] : gather_timeout(n, l)
    \/ \E m \in vote_reqs : recv_request_vote(m)
    \/ \E n \in Nodes : \E l \in loops[n] : gather_done(n, l)
    \/ \E n \in Nodes : \E p \in Peers(n) : heartbeat(n, p)
    \/ \E n \in Nodes : \E v \in Values : add_entry(n, v)

SpecQuiet == Init /\ [][QuietNext]_vars

QuietFairness ==
    /\ \A n \in Servers : WF_vars(become_candidate(n))
    /\ WF_vars(\E m \in vote_reqs : recv_request_vote(m))
    /\ \A n \in Nodes : WF_vars(\E l \in loops[n] : gather_done(n, l))
    /\ \A n \in Nodes : \A p \in Peers(n) : WF_vars(heartbeat(n, p))

SpecQuietFair == SpecQuiet /\ QuietFairness

(***************************************************************************)
(* Pushes of the same manifest to several nodes: every node of Pushers     *)
(* takes the PUT of a manifest, and runs its reducers and its worker pool. *)
(***************************************************************************)
PushNext ==
    \/ \E n \in Pushers : \E r \in Repositories : \E tag \in Tags : \E m \in Contents :
          put_manifest_open(n, r, tag, m)
    \/ \E w \in writing : put_manifest(w)
    \/ \E n \in Pushers : apply_entry(n)
    \/ \E n \in Pushers : \E t \in BagToSet(tasks[n]) : do_download(n, t)
    \/ \E n \in Pushers : \E t \in BagToSet(tasks[n]) : do_transfer(n, t)
    \/ \E n \in Pushers : \E t \in BagToSet(tasks[n]) : call_later(n, t)

SpecPush == Init /\ [][PushNext]_vars

(***************************************************************************)
(* The heartbeats of a quiet cluster in their three steps: do_heartbeat    *)
(* posts the request, the peer handles it or the post gets a status other  *)
(* than 200, and do_heartbeat handles the response.  The heartbeats to one *)
(* peer of the leader are followed; the posts to the others stay           *)
(* unanswered.                                                             *)
(***************************************************************************)
HeartbeatNext ==
    \/ \E n \in Servers : become_candidate(n)
    \/ \E m \in vote_reqs : recv_request_vote(m)
    \/ \E n \in Nodes : \E l \in loops[n] : gather_done(n, l)
    \/ \E n \in Nodes : do_heartbeat(n, Caller(n))
    \/ \E h \in heartbeats : recv_append_entries(h)
    \/ \E h \in heartbeats : send_append_entries_fails(h)
    \/ \E h \in heartbeats : heartbeat_response(h)
    \/ \E n \in Nodes : \E v \in Values : add_entry(n, v)

SpecHeartbeat == Init /\ [][HeartbeatNext]_vars

(***************************************************************************)
(* The process of node n ends and run_raft starts it again: Node.__init__  *)
(* reads the log back from its file, the vote and the term are set from    *)
(* scratch, add_member registers the peers and become_follower arms the    *)
(* election timer.  The coroutines of the old process are gone, and so are *)
(* the requests on their way to it and the responses on their way back.    *)
(***************************************************************************)
restart(n) ==
    /\ log' = [log EXCEPT ![n] = log_file[n].lines]
    /\ log_file' = [log_file EXCEPT ![n].synced = Len(log_file[n].lines)]
    /\ log_lock' = [log_lock EXCEPT ![n] = FALSE]
    /\ appends' = [appends EXCEPT ![n] = {}]
    /\ state' = [state EXCEPT ![n] = FOLLOWER]
    /\ voted_for' = [voted_for EXCEPT ![n] = None]
    /\ current_term' = [current_term EXCEPT ![n] =
          IF Len(log'[n]) = 0 THEN 0 ELSE log'[n][Len(log'[n])][1]]
    /\ commit_index' = [commit_index EXCEPT ![n] = 0]
    /\ next_index' = [next_index EXCEPT ![n] = [p \in Nodes |-> Len(log'[n]) + 1]]
    /\ match_index' = [match_index EXCEPT ![n] = [p \in Nodes |-> 0]]
    /\ timer' = [timer EXCEPT ![n] = TRUE]
    /\ loops' = [loops EXCEPT ![n] = {}]
    /\ vote_reqs' = { m \in vote_reqs : m.dst # n }
    /\ heartbeats' = { h \in heartbeats : h.src # n /\ h.dst # n }
    /\ UNCHANGED granted
    /\ add_result' = NoResult
    /\ committed' = committed \cup CommittedNow'
    /\ rpc_result' = NoRpc
    /\ UNCHANGED mirror_vars

(***************************************************************************)
(* The endpoints of the Servers called from outside, their election timers *)
(* and their restarts.                                                     *)
(***************************************************************************)
RestartNext ==
    \/ \E m \in VotePayloads : request_vote(m)
    \/ \E h \in AppendPayloads : append_entries(h)
    \/ \E n \in Servers : become_candidate(n)
    \/ \E n \in Servers : restart(n)

SpecRestart == Init /\ [][RestartNext]_vars

(***************************************************************************)
(* Node.append in its steps.  A call of add_entry or recv_append_entries   *)
(* that has entries to append is kept in appends until it returns: for the *)
(* first of the entries it still has to append it waits for log_lock, then *)
(* awaits the write of the line, then awaits fsync, and when fsync returns *)
(* it appends the entry to the log and releases the lock.  At most         *)
(* MaxAppends calls of a node are open, and the log file is not followed   *)
(* beyond MaxStored lines.                                                 *)
(***************************************************************************)
AppendIds == 1..MaxAppends

pending_entries(n) ==
    Cardinality({ c \in appends[n] : c.phase # "written" })

room_for(n, k) ==
    /\ Len(log_file[n].lines) + pending_entries(n) + k <= MaxStored
    /\ \E i \in AppendIds : \A c \in appends[n] : c.id # i

append_call(n, origin, entries, leader_commit) ==
    [id |-> CHOOSE i \in AppendIds :
               /\ \A c \in appends[n] : c.id # i
               /\ \A j \in AppendIds : (\A c \in appends[n] : c.id # j) => i <= j,
     origin |-> origin, entries |-> entries, leader_commit |-> leader_commit,
     phase |-> "waiting"]

\* POST /add-entry on node n up to the await of Node.append
add_entry_call(n, v) ==
    /\ IF state[n] # LEADER
       THEN /\ add_result' = [node |-> n, status |-> 400, last_term |-> 0,
                               last_index |-> 0]
            /\ UNCHANGED appends
       ELSE /\ room_for(n, 1)
            /\ appends' = [appends EXCEPT ![n] =
                  @ \cup {append_call(n, "add-entry", <<<<current_term[n], v>>>>, 0)}]
            /\ add_result' = NoResult
    /\ UNCHANGED <<state, current_term, voted_for, log, commit_index, next_index,
                   match_index, timer, loops, vote_reqs, heartbeats, granted,
                   committed, log_file, log_lock>>
    /\ rpc_result' = NoRpc
    /\ UNCHANGED mirror_vars

\* POST /append-entries with payload h up to the first await of Node.append,
\* or up to the response when the request is rejected or has no entries
append_entries_call(h) ==
    /\ state' = [state EXCEPT ![h.dst] =
          IF maybe_become_follower(h.dst, h.term) THEN FOLLOWER ELSE @]
    /\ timer' = [timer EXCEPT ![h.dst] = TRUE]
    /\ IF append_success(h) /\ h.entries # <<>>
       THEN /\ room_for(h.dst, Len(h.entries))
            /\ appends' = [appends EXCEPT ![h.dst] =
                  @ \cup {append_call(h.dst, "append-entries", h.entries,
                                      h.leader_commit)}]
            /\ rpc_result' = NoRpc
            /\ UNCHANGED commit_index
       ELSE /\ rpc_result' = [handler |-> "append-entries", node |-> h.dst,
                               success |-> append_success(h)]
            /\ commit_index' = [commit_index EXCEPT ![h.dst] =
                  IF append_success(h) /\ h.leader_commit > @
                  THEN min(h.leader_commit, Len(log[h.dst]) - 1) ELSE @]
            /\ UNCHANGED appends
    /\ UNCHANGED <<current_term, voted_for, log, next_index, match_index, loops,
                   vote_reqs, heartbeats, granted, log_file, log_lock>>
    /\ add_result' = NoResult
    /\ committed' = committed \cup CommittedNow'
    /\ UNCHANGED mirror_vars

\* Node.append entered without log_lock
append_acquire_unlocked(n, c) ==
    /\ c \in appends[n]
    /\ c.phase = "waiting"
    /\ log_lock' = [log_lock EXCEPT ![n] = TRUE]
    /\ appends' = [appends EXCEPT ![n] = (@ \ {c}) \cup {[c EXCEPT !.phase = "writing"]}]
    /\ UNCHANGED <<state, current_term, voted_for, log, commit_index, next_index,
                   match_index, timer, loops, vote_reqs, heartbeats, granted,
                   committed, log_file>>
    /\ add_result' = NoResult
    /\ rpc_result' = NoRpc
    /\ UNCHANGED mirror_vars

\* async with self.log_lock: call c of node n gets the lock
append_acquire(n, c) ==
    /\ c \in appends[n]
    /\ c.phase = "waiting"
    /\ ~log_lock[n]
    /\ log_lock' = [log_lock EXCEPT ![n] = TRUE]
    /\ appends' = [appends EXCEPT ![n] = (@ \ {c}) \cup {[c EXCEPT !.phase = "writing"]}]
    /\ UNCHANGED <<state, current_term, voted_for, log, commit_index, next_index,
                   match_index, timer, loops, vote_reqs, heartbeats, granted,
                   committed, log_file>>
    /\ add_result' = NoResult
    /\ rpc_result' = NoRpc
    /\ UNCHANGED mirror_vars

\* await self.log_writer(...): the line is at the end of the file
append_write(n, c) ==
    /\ c \in appends[n]
    /\ c.phase = "writing"
    /\ log_file' = [log_file EXCEPT ![n].lines = Append(@, Head(c.entries))]
    /\ appends' = [appends EXCEPT ![n] = (@ \ {c}) \cup {[c EXCEPT !.phase = "written"]}]
    /\ UNCHANGED <<state, current_term, voted_for, log, commit_index, next_index,
                   match_index, timer, loops, vote_reqs, heartbeats, granted,
                   committed, log_lock>>
    /\ add_result' = NoResult
    /\ rpc_result' = NoRpc
    /\ UNCHANGED mirror_vars

\* await self.log_fp.fsync() returns: the entry is appended to the log and the
\* lock is released; after its last entry the call returns to its handler,
\* which sends the response
append_fsync(n, c) ==
    /\ c \in appends[n]
    /\ c.phase = "written"
    /\ log_file' = [log_file EXCEPT ![n].synced = Len(log_file[n].lines)]
    /\ log' = [log EXCEPT ![n] = Append(@, Head(c.entries))]
    /\ log_lock' = [log_lock EXCEPT ![n] = FALSE]
    /\ IF Tail(c.entries) # <<>>
       THEN /\ appends' = [appends EXCEPT ![n] =
                  (@ \ {c}) \cup {[c EXCEPT !.phase = "waiting",
                                            !.entries = Tail(@)]}]
            /\ add_result' = NoResult
            /\ rpc_result' = NoRpc
            /\ UNCHANGED commit_index
       ELSE /\ appends' = [appends EXCEPT ![n] = @ \ {c}]
            /\ IF c.origin = "add-entry"
               THEN /\ add_result' = [node |-> n, status |-> 200,
                                       last_term |-> log'[n][Len(log'[n])][1],
                                       last_index |-> Len(log'[n])]
                    /\ rpc_result' = NoRpc
                    /\ UNCHANGED commit_index
               ELSE /\ add_result' = NoResult
                    /\ rpc_result' = [handler |-> "append-entries", node |-> n,
                                       success |-> TRUE]
                    /\ commit_index' = [commit_index EXCEPT ![n] =
                          IF c.leader_commit > @
                          THEN min(c.leader_commit, Len(log'[n]) - 1) ELSE @]
    /\ UNCHANGED <<state, current_term, voted_for, next_index, match_index, timer,
                   loops, vote_reqs, heartbeats, granted>>
    /\ committed' = committed \cup CommittedNow'
    /\ UNCHANGED mirror_vars

(***************************************************************************)
(* A server that wins its election and then takes /add-entry requests of   *)
(* clients and /append-entries requests of another leader side by side.    *)
(* The other leader replicates from the start of its log and has committed *)
(* nothing.                                                                *)
(***************************************************************************)
AppendCalls ==
    { h \in AppendPayloads : h.prev_index = 0 /\ h.leader_commit = 0 }

AppendNext ==
    \/ \E n \in Servers : become_candidate(n)
    \/ \E m \in vote_reqs : recv_request_vote(m)
    \/ \E n \in Servers : \E l \in loops[n] : gather_done(n, l)
    \/ \E n \in Servers : \E v \in Values : add_entry_call(n, v)
    \/ \E h \in AppendCalls : append_entries_call(h)
    \/ \E n \in Servers : \E c \in appends[n] : append_acquire(n, c)
    \/ \E n \in Servers : \E c \in appends[n] : append_write(n, c)
    \/ \E n \in Servers : \E c \in appends[n] : append_fsync(n, c)

SpecAppend == Init /\ [][AppendNext]_vars

Next ==
    \/ \E n \in Nodes : become_candidate(n)
    \/ \E n \in Nodes : \E l \in loops[n] : gather_timeout(n, l)
    \/ \E m \in vote_reqs : recv_request_vote(m)
    \/ \E n \in Nodes : \E l \in loops[n] : gather_done(n, l)
    \/ \E n \in Nodes : \E l \in loops[n] : gather_sleep_done(n, l)
    \/ \E n \in Nodes : \E p \in Peers(n) : heartbeat(n, p)
    \/ \E n \in Nodes : \E v \in Values : add_entry(n, v)

Spec == Init /\ [][Next]_vars

(***************************************************************************)
(* C1: log agreement.  For any two nodes a and b and any index i with      *)
(* 1 <= i <= min(commit_index[a], commit_index[b]), the logs of a and b    *)
(* hold the same entry at i.                                               *)
(***************************************************************************)
LogAgreement ==
    \A a \in Nodes : \A b \in Nodes :
        \A i \in 1..min(commit_index[a], commit_index[b]) :
            /\ i <= Len(log[a])
            /\ i <= Len(log[b])
            /\ log[a][i] = log[b][i]

(***************************************************************************)
(* No node ever has a commit index other than 0: the precondition of C1 is *)
(* never met.                                                              *)
(***************************************************************************)
CommitIndexStaysZero == \A n \in Nodes : commit_index[n] = 0

(***************************************************************************)
(* C2: leader completeness.  In a step in which a node becomes leader, its *)
(* log holds, at the same index, every entry that was committed in an      *)
(* earlier term.                                                           *)
(***************************************************************************)
LeaderCompleteness ==
    [][\A n \in Nodes :
        (state[n] # LEADER /\ state'[n] = LEADER) =>
            \A c \in committed :
                c[2][1] < current_term'[n] =>
                    (Len(log'[n]) >= c[1] /\ log'[n][c[1]] = c[2])]_vars

(***************************************************************************)
(* C3: a client write reports success only when the index of the appended  *)
(* entry is at most the commit index of the leader.                        *)
(***************************************************************************)
AddEntrySuccessIsCommitted ==
    add_result.status = 200 =>
        add_result.last_index <= commit_index[add_result.node]

OneVotePerTerm ==
    \A g \in granted : \A k \in granted :
        (g[1] = k[1] /\ g[2] = k[2]) => g[3] = k[3]

(***************************************************************************)
(* C5  Convergence: once blob-stored(d, origin) and blob-mounted(d, repo)  *)
(* are applied on a node other than the origin, that node eventually has d *)
(* at its blob path and blob-stored(d, self) is submitted.                 *)
(***************************************************************************)
Convergence ==
    \A n \in Nodes : \A h \in Hashes :
        ( /\ \E o \in Peers(n) : <<h, o>> \in blob_locations[n]
          /\ \E r \in Repositories : <<h, r>> \in blob_repos[n] )
        ~> ( /\ exists(blobs[n], h)
             /\ \E i \in 1..Len(events) : events[i] = Event(BLOB_STORED, h, n, 0, "") )

(***************************************************************************)
(* C6  Content integrity: every file at the blob or manifest path of a     *)
(* digest d, on any node, has content whose SHA-256 is d.  A manifest file *)
(* that a put_manifest request is still writing is left out.               *)
(***************************************************************************)
ContentIntegrity ==
    \A n \in Nodes :
        /\ \A f \in blobs[n] : hexdigest(f[2]) = f[1]
        /\ \A f \in manifests[n] :
              \/ hexdigest(f[2]) = f[1]
              \/ \E w \in writing : w.node = n /\ hexdigest(w.manifest) = f[1]

(***************************************************************************)
(* C7  An upload finish whose declared digest differs from the SHA-256 of  *)
(* the uploaded bytes answers 400, submits no event and places no file in  *)
(* the blob tree.                                                          *)
(***************************************************************************)
BadDigestRejected ==
    [][\A n \in Nodes : \A id \in SessionIds : \A r \in Repositories :
       \A body \in {<<>>} \cup { <<c>> : c \in Chunks } : \A d \in DeclaredDigests :
          ( /\ sessions[id].node = n
            /\ d # sha256_prefixed(hexdigest(sessions[id].hasher \o body))
            /\ upload_finish(n, id, r, body, d) )
          => ( /\ http_result'.status = 400
               /\ events' = events
               /\ blobs' = blobs )]_vars

BadDigestWitness ==
    /\ http_result.handler = "upload_finish"
    /\ http_result.status = 400
    /\ \E id \in SessionIds :
          /\ sessions[id].node = http_result.node
          /\ sessions[id].hasher # <<>>
          /\ exists(uploads[http_result.node], id)
    /\ blobs[http_result.node] = {}
    /\ events = <<>>

(***************************************************************************)
(* C8  Mirror idempotence: applying a blob-stored or manifest-stored event *)
(* whose (digest, location) the mirror already holds leaves its indexes    *)
(* unchanged and spawns no additional download task.                       *)
(***************************************************************************)
MirrorIdempotence ==
    [][\A n \in Nodes :
          ( /\ applied'[n] = applied[n] + 1
            /\ \/ /\ events[applied'[n]].type = BLOB_STORED
                  /\ <<events[applied'[n]].hash, events[applied'[n]].location>>
                        \in blob_locations[n]
               \/ /\ events[applied'[n]].type = MANIFEST_STORED
                  /\ <<events[applied'[n]].hash, events[applied'[n]].location>>
                        \in manifest_locations[n] )
          => ( /\ blob_locations'[n] = blob_locations[n]
               /\ blob_repos'[n] = blob_repos[n]
               /\ manifest_locations'[n] = manifest_locations[n]
               /\ manifest_repos'[n] = manifest_repos[n]
               /\ tasks'[n] = tasks[n] )]_vars

(***************************************************************************)
(* C9  Waiter liveness: once blob-stored(d, self) is applied on a node     *)
(* that holds d, every wait_for_blob(d) call made there before gets its    *)
(* result.                                                                 *)
(***************************************************************************)
WaiterLiveness ==
    \A n \in Nodes : \A h \in Hashes :
        ( /\ futures[n][h] > 0
          /\ <<h, n>> \in blob_locations[n]
          /\ \E f \in blobs[n] : f[1] = h /\ hexdigest(f[2]) = h )
        ~> (futures[n][h] = 0)

(***************************************************************************)
(* Lexicographic order on (term, index) pairs: the first pair is at least  *)
(* the second.                                                             *)
(***************************************************************************)
LexAtLeast(t1, i1, t2, i2) == t1 > t2 \/ (t1 = t2 /\ i1 >= i2)

(***************************************************************************)
(* C11: when the request's term is not behind the receiver's and the       *)
(* receiver has not already voted in that term, recv_request_vote grants   *)
(* the vote exactly when (request.last_term, request.last_index) is at     *)
(* least (receiver.last_term, receiver.last_index) in lexicographic order. *)
(***************************************************************************)
VoteIsLexicographic ==
    [][\A m \in VotePayloads :
          (/\ m.term >= current_term[m.dst]
           /\ ~(m.term = current_term[m.dst] /\ voted_for[m.dst] # None)
           /\ respond_request_vote(m))
          => (rpc_result'.success <=>
                LexAtLeast(m.last_term, m.last_index,
                           last_term(m.dst), last_index(m.dst)))]_vars

(***************************************************************************)
(* C12: a node becomes leader in term T only when at least floor(N/2)+1    *)
(* nodes, itself included, have granted it their vote for term T.          *)
(***************************************************************************)
grants_for(n, term) ==
    {n} \cup { p \in Peers(n) : <<p, term, n>> \in granted' }

LeaderHasQuorumOfGrants ==
    [][\A n \in Nodes :
          (state[n] # LEADER /\ state'[n] = LEADER)
          => Cardinality(grants_for(n, current_term'[n])) >= quorum(n)]_vars

(***************************************************************************)
(* C13: a node of any role that handles a request-vote or append-entries   *)
(* request whose term is higher than its current_term is a follower when   *)
(* the handler returns.                                                    *)
(***************************************************************************)
HigherTermMakesFollower ==
    [][/\ \A m \in vote_reqs :
             (recv_request_vote(m) /\ m.term > current_term[m.dst])
             => state'[m.dst] = FOLLOWER
       /\ \A n \in Nodes : \A p \in Peers(n) :
             (heartbeat(n, p) /\ current_term[n] > current_term[p])
             => state'[p] = FOLLOWER]_vars

(***************************************************************************)
(* C14: on every node the terms of the log never decrease along the index  *)
(* axis, and every entry a leader appends through add_entry carries the    *)
(* leader's current term.                                                  *)
(***************************************************************************)
TermsNonDecreasing(l) ==
    \A i \in 1..Len(l) : \A j \in i..Len(l) : l[i][1] <= l[j][1]

LogTermsMonotone ==
    [][/\ \A n \in Nodes : TermsNonDecreasing(log'[n])
       /\ \A n \in Nodes : \A v \in Values :
             (add_entry(n, v) /\ state[n] = LEADER)
             => /\ Len(log'[n]) = Len(log[n]) + 1
                /\ log'[n][Len(log'[n])][1] = current_term[n]]_vars

(***************************************************************************)
(* C15: when a leader holds an index N above its commit_index whose entry  *)
(* is of its current term and match_index reaches N on a majority (the     *)
(* leader counted), its commit_index eventually is at least N, unless it   *)
(* stops being leader; and the leader's commit_index only moves to such an *)
(* index.                                                                  *)
(***************************************************************************)
CommitReady(n, N) ==
    /\ state[n] = LEADER
    /\ N > commit_index[n]
    /\ N <= Len(log[n])
    /\ log[n][N][1] = current_term[n]
    /\ Cardinality({n} \cup { p \in Peers(n) : match_index[n][p] >= N })
          >= quorum(n)

LeaderCommitAdvances ==
    \A n \in Nodes : \A N \in 1..MaxLog :
        CommitReady(n, N) ~> (commit_index[n] >= N \/ state[n] # LEADER)

(***************************************************************************)
(* C16, its first half in the quiet cluster: with all nodes up and         *)
(* exchanging messages, some node eventually is leader.                    *)
(***************************************************************************)
EventuallyLeader == <>(\E n \in Nodes : state[n] = LEADER)

(***************************************************************************)
(* C17: after a follower accepts an append-entries request with prev_index *)
(* p and entries e1..ek, its log holds e1..ek at the indices p+1..p+k,     *)
(* whatever it held there before.                                          *)
(***************************************************************************)
AcceptedEntriesStored ==
    [][\A h \in AppendPayloads :
          (append_success(h) /\ respond_append_entries(h))
          => /\ Len(log'[h.dst]) >= h.prev_index + Len(h.entries)
             /\ SubSeq(log'[h.dst], h.prev_index + 1,
                       h.prev_index + Len(h.entries)) = h.entries]_vars

must_reject(h) ==
    \/ h.term < current_term[h.dst]
    \/ h.prev_index > Len(log[h.dst])
    \/ h.prev_index > 0 /\ log[h.dst][h.prev_index][1] # h.prev_term

StaleAppendKeepsTimer ==
    [][\A h \in AppendPayloads :
          (h.term < current_term[h.dst] /\ respond_append_entries(h))
          => /\ rpc_result'.success = FALSE
             /\ timer'[h.dst] = timer[h.dst]]_vars

(***************************************************************************)
(* C21: after a leader handles a successful append-entries response from a *)
(* peer, match_index for that peer equals prev_index + len(entries) of the *)
(* request and next_index equals match_index + 1; and in every state of a  *)
(* leader match_index <= last_index and next_index <= last_index + 1 for   *)
(* every peer.                                                             *)
(***************************************************************************)
SuccessfulResponseIndexes ==
    /\ [][\A h \in heartbeats :
            (h.phase = "done" /\ h.success /\ heartbeat_response(h))
            => /\ match_index'[h.src][h.dst] = h.prev_index + Len(h.entries)
               /\ next_index'[h.src][h.dst] = match_index'[h.src][h.dst] + 1]_vars
    /\ [](\A n \in Nodes : \A p \in Peers(n) :
            state[n] = LEADER
            => /\ match_index[n][p] <= last_index(n)
               /\ next_index[n][p] <= last_index(n) + 1)

(***************************************************************************)
(* C22: at the moment a node becomes leader, for every peer next_index     *)
(* equals the new leader's last_index + 1 and match_index equals 0, also   *)
(* when the node's log grew after the peer was registered or when the node *)
(* was leader before.                                                      *)
(***************************************************************************)
NewLeaderIndexes ==
    [][\A n \in Nodes :
          (state[n] # LEADER /\ state'[n] = LEADER)
          => \A p \in Peers(n) :
                /\ next_index'[n][p] = Len(log'[n]) + 1
                /\ match_index'[n][p] = 0]_vars

(***************************************************************************)
(* C23: on a failed append-entries response the leader sets next_index for *)
(* that peer to max(1, next_index - 1); so after any number of failures    *)
(* in a row next_index is still at least 1, and the entries of the next    *)
(* request are the suffix of the log that starts at next_index.            *)
(***************************************************************************)
FailedResponseBacksOff ==
    /\ [][\A h \in heartbeats :
            (h.phase = "done" /\ ~h.success /\ heartbeat_response(h))
            => next_index'[h.src][h.dst] =
                  IF next_index[h.src][h.dst] - 1 > 1
                  THEN next_index[h.src][h.dst] - 1 ELSE 1]_vars
    /\ [](\A n \in Nodes : \A p \in Peers(n) : next_index[n][p] >= 1)
    /\ [][\A n \in Nodes : \A p \in Peers(n) :
            do_heartbeat(n, p)
            => \A h \in heartbeats' \ heartbeats :
                  /\ next_index[n][p] >= 1
                  /\ h.entries = SubSeq(log[n], next_index[n][p], Len(log[n]))]_vars

(***************************************************************************)
(* C24: every append-entries request a leader sends to a peer has          *)
(* prev_index = next_index - 1 for that peer, prev_term = the term of the  *)
(* leader's log entry at prev_index (0 when prev_index is 0), and          *)
(* entries = the leader's log from next_index to its end.                  *)
(***************************************************************************)
RequestFollowsNextIndex ==
    [][\A n \in Nodes : \A p \in Peers(n) :
          do_heartbeat(n, p)
          => \A h \in heartbeats' \ heartbeats :
                /\ h.prev_index = next_index[n][p] - 1
                /\ h.prev_term = IF h.prev_index = 0 THEN 0
                                 ELSE log[n][h.prev_index][1]
                /\ h.entries = SubSeq(log[n], next_index[n][p], Len(log[n]))]_vars

(***************************************************************************)
(* C25: whenever recv_request_vote grants a vote, the election timer of    *)
(* the receiver is restarted, as it is on a heartbeat of a leader: after   *)
(* the grant the timer is armed.                                           *)
(***************************************************************************)
VoteGrantRestartsTimer ==
    [][\A m \in VotePayloads :
          (vote_granted(m) /\ respond_request_vote(m))
          => timer'[m.dst] = TRUE]_vars

(***************************************************************************)
(* C26: a leader leaves the leader role only when it receives an RPC whose *)
(* term is greater than its current_term.  In every step that changes the  *)
(* role or the current_term of a node that is leader, that node handles a  *)
(* request-vote or an append-entries request with a greater term; the      *)
(* expiry of its election timer, requests with a term <= current_term and  *)
(* failed or rejected heartbeats leave both as they are.                   *)
(***************************************************************************)
LeaderLeavesOnHigherTermOnly ==
    [][\A n \in Nodes :
          ( /\ state[n] = LEADER
            /\ state'[n] # LEADER \/ current_term'[n] # current_term[n] )
          => \/ \E m \in vote_reqs :
                   m.dst = n /\ m.term > current_term[n] /\ recv_request_vote(m)
             \/ \E p \in Peers(n) :
                   current_term[p] > current_term[n] /\ heartbeat(p, n)]_vars

\* a node that is still leader after a peer with a greater term rejected its
\* heartbeat
LeaderSurvivesWitness ==
    \E n \in Nodes : \E p \in Peers(n) :
        /\ state[n] = LEADER
        /\ next_index[n][p] = 0
        /\ current_term[p] > current_term[n]

(***************************************************************************)
(* C27: the n-th retry of a failed blob or manifest transfer (n = 1, 2,    *)
(* 3, ...) is scheduled n seconds after the failure it follows: the timer  *)
(* of the retry that follows retry_count earlier retries is set to         *)
(* retry_count + 1 seconds, so the first retry never has a delay of 0.     *)
(***************************************************************************)
RetryDelayIsOrdinal ==
    \A n \in Nodes : \A t \in BagToSet(tasks[n]) :
        (t.phase = "scheduled" /\ t.retry_count < MaxRetry)
        => t.delay = t.retry_count + 1

(***************************************************************************)
(* C28: when a blob or manifest download task is cancelled during its      *)
(* transfer, it submits no blob-stored or manifest-stored event and        *)
(* schedules no further retry for that digest: the task is gone from the   *)
(* pool and nothing takes its place.                                       *)
(***************************************************************************)
CancelledDownloadStops ==
    [][\A n \in Nodes : \A t \in BagToSet(tasks[n]) :
          cancel(n, t)
          => /\ events' = events
             /\ tasks'[n] = finish(tasks[n], t)]_vars

(***************************************************************************)
(* C29: on one node, whatever events are applied that keep the download    *)
(* predicate true for digest d, at most one download task for (d, blob)    *)
(* exists at a time, running tasks and scheduled retries counted alike;    *)
(* and the same for (d, manifest).                                         *)
(***************************************************************************)
DownloadTasks(n, kind, hash) ==
    { t \in BagToSet(tasks[n]) : t.kind = kind /\ t.hash = hash }

OneDownloadPerDigest ==
    \A n \in Nodes : \A kind \in {BLOB, MANIFEST} : \A h \in Hashes :
        /\ Cardinality(DownloadTasks(n, kind, h)) <= 1
        /\ \A t \in DownloadTasks(n, kind, h) : CopiesIn(t, tasks[n]) <= 1

(***************************************************************************)
(* C30: when a download for digest d starts on a node and the destination  *)
(* file already exists there, the transfer is a success without any        *)
(* network request: the node submits blob-stored(d, self) (manifest-stored *)
(* for a manifest) and schedules no retry.                                 *)
(***************************************************************************)
ExistingFileIsSuccess ==
    [][\A n \in Nodes : \A t \in BagToSet(tasks[n]) :
          ( /\ t.phase = "spawned"
            /\ should_download(locations(n, t.kind), repos(n, t.kind), n, t.hash)
            /\ exists(files(n, t.kind), t.hash)
            /\ do_download(n, t) )
          => /\ events' = Append(events,
                    Event(IF t.kind = BLOB THEN BLOB_STORED ELSE MANIFEST_STORED,
                          t.hash, n, 0, ""))
             /\ tasks'[n] = finish(tasks[n], t)]_vars

(***************************************************************************)
(* C31: the current term of a node and the vote it granted in that term    *)
(* survive a crash and restart: after the restart current_term and         *)
(* voted_for have the values they had before it, so a node never grants    *)
(* its vote to two different candidates in one term, restarts included.    *)
(***************************************************************************)
TermAndVoteSurviveRestart ==
    /\ [][\A n \in Nodes :
            restart(n) => /\ current_term'[n] = current_term[n]
                          /\ voted_for'[n] = voted_for[n]]_vars
    /\ [](\A g \in granted : \A k \in granted :
            (g[1] = k[1] /\ g[2] = k[2]) => g[3] = k[3])

(***************************************************************************)
(* C32: the appends to the log of one node are serialized.  At most one    *)
(* call of Node.append is between the write of its line and the append to  *)
(* the in-memory log; an entry is in the in-memory log only when its line  *)
(* is synced; and however add_entry and recv_append_entries calls          *)
(* interleave, the entries of the in-memory log are the lines of the log   *)
(* file in the same order (the file is ahead by the line being synced).    *)
(***************************************************************************)
in_section(n) == { c \in appends[n] : c.phase \in {"writing", "written"} }

AppendsSerialized ==
    \A n \in Nodes :
        /\ Cardinality(in_section(n)) <= 1
        /\ Len(log[n]) <= log_file[n].synced
        /\ Len(log[n]) <= Len(log_file[n].lines)
        /\ log[n] = SubSeq(log_file[n].lines, 1, Len(log[n]))
        /\ Len(log_file[n].lines) - Len(log[n]) <= 1

\* a call from /add-entry and a call from /append-entries are open on one
\* node: the one from /append-entries holds the lock with its line written
\* and not yet in the log, the other waits for the lock
AppendsSerializedWitness ==
    \E n \in Nodes : \E c \in appends[n] : \E d \in appends[n] :
        /\ c.origin = "add-entry" /\ c.phase = "waiting"
        /\ d.origin = "append-entries" /\ d.phase = "written"
        /\ log_lock[n]
        /\ Len(log_file[n].lines) = Len(log[n]) + 1

(***************************************************************************)
(* C33: election safety.  In any term at most one node is leader: two      *)
(* different nodes are never both in the leader role with the same         *)
(* current_term.                                                           *)
(***************************************************************************)
ElectionSafety ==
    \A a \in Nodes : \A b \in Nodes :
        (a # b /\ state[a] = LEADER /\ state[b] = LEADER)
        => current_term[a] # current_term[b]

(***************************************************************************)
(* C34: the current_term of a node never decreases and is never behind     *)
(* what the node has seen: after it handles a request-vote or an           *)
(* append-entries request of term T without rejecting it as stale, its     *)
(* current_term is at least T; and in every state current_term is at least *)
(* the term of the last entry of its own log.                              *)
(***************************************************************************)
CurrentTermKeepsUp ==
    /\ [][\A n \in Nodes : current_term'[n] >= current_term[n]]_vars
    /\ [][\A m \in VotePayloads :
            (m.term >= current_term[m.dst] /\ respond_request_vote(m))
            => current_term'[m.dst] >= m.term]_vars
    /\ [][\A h \in AppendPayloads :
            (h.term >= current_term[h.dst] /\ respond_append_entries(h))
            => current_term'[h.dst] >= h.term]_vars
    /\ [](\A n \in Nodes : current_term[n] >= last_term(n))

(***************************************************************************)
(* C35: heartbeats to one peer are sent without waiting for the answer to  *)
(* the one before.  When two append-entries requests of one leader overlap *)
(* at a follower, the follower's log does not get the same leader entry    *)
(* twice and stays a prefix of the leader's log, and the leader's          *)
(* match_index for that peer never exceeds the number of leader entries    *)
(* the peer holds.                                                         *)
(***************************************************************************)
held_entries(n, p) ==
    Cardinality({ i \in 1..Len(log[p]) : i <= Len(log[n]) /\ log[p][i] = log[n][i] })

OverlappingHeartbeatsAreSafe ==
    \A n \in Nodes : \A p \in Peers(n) :
        state[n] = LEADER
        => /\ Len(log[p]) <= Len(log[n])
           /\ log[p] = SubSeq(log[n], 1, Len(log[p]))
           /\ match_index[n][p] <= held_entries(n, p)

(***************************************************************************)
(* C36: at most one vote-gathering loop (do_gather_votes) is active on a   *)
(* node at any time: an election timer that fires while the node is a      *)
(* candidate already starts no second loop, so the current_term of a       *)
(* candidate grows by exactly one per election round.                      *)
(***************************************************************************)
OneGatherLoopPerNode ==
    /\ [](\A n \in Nodes : Cardinality(loops[n]) <= 1)
    /\ [][\A n \in Nodes :
            (state[n] = CANDIDATE /\ timer[n] /\ become_candidate(n))
            => loops'[n] = loops[n]]_vars

(***************************************************************************)
(* C37: a candidate that accepts an append-entries request of a leader     *)
(* whose term is at least its own current_term is a follower when the      *)
(* handler returns, and a node that is no candidate starts no election     *)
(* round from its vote-gathering loop.  The claim's conclusion, that under *)
(* a heartbeating leader eventually no node is a candidate and the terms   *)
(* stop growing, rests on the first part.                                  *)
(***************************************************************************)
CandidateYieldsToLeader ==
    /\ [][\A n \in Nodes : \A p \in Peers(n) :
            (/\ state[p] = CANDIDATE
             /\ current_term[n] >= current_term[p]
             /\ append_success(append_entries_request(n, p, 1))
             /\ heartbeat(n, p))
            => state'[p] = FOLLOWER]_vars
    /\ [][\A n \in Nodes : \A l \in loops[n] :
            ((gather_timeout(n, l) \/ gather_sleep_done(n, l))
             /\ current_term'[n] > current_term[n])
            => state[n] = CANDIDATE]_vars

=============================================================================
